---- MODULE Spec2Model ----
(***************************************************************************)
(* Process supervision of ZonaVRLauncher: core/process_manager.py.         *)
(*                                                                         *)
(* Strings are sequences of one-character strings, so that strip(),        *)
(* lower(), endswith() and the substring tests are computed and not        *)
(* assumed.  Times are integer tenths of a second.  A PID of None is       *)
(* written NoPid.  config.LOG only writes a log line and changes nothing   *)
(* of the state modelled here.                                             *)
(***************************************************************************)
EXTENDS Integers, Sequences, FiniteSets, TLC

VARIABLES
    procs,          \* the OS process table, in enumeration order
    now,            \* time.time(), in tenths of a second
    PS_OK,          \* whether psutil could be imported
    det,            \* a call of _detect_proc_psutil on its own
    handles,        \* the game handles launch() has created, in order
    watcher,        \* one _steam_attach_watcher thread record per handle
    last,           \* the last call made on an object, with what it did
    terminated,     \* handles on which terminate() has returned
    _current_proc,  \* ProcessManager._current_proc: a handle, or NoHandle
    _extra_procs,   \* ProcessManager._extra_procs: the Popen objects of the extra apps
    mpc,            \* where the caller's thread is inside launch()
    lv,             \* the local variables of the launch() in progress
    nLaunch,        \* launches that got past their checks
    nextPid         \* the PID the OS gives the next spawned process

----------------------------------------------------------------------------
(* Bounds of the model *)

\* The watcher's overall timeout (90 s in the launcher), in tenths.
WatcherTimeout == 30

\* launch() calls that get past their checks, per behaviour.
MaxLaunch == 2

\* A Steam title is launched only among the first MaxSteamLaunch of them.
MaxSteamLaunch == 1

\* config.STEAM_DETECT_TIMEOUT, in tenths of a second
STEAM_DETECT_TIMEOUT == 10

----------------------------------------------------------------------------
(* Strings *)

UpperChars == <<"A","B","C","D","E","F","G","H","I","J","K","L","M",
                "N","O","P","Q","R","S","T","U","V","W","X","Y","Z">>
LowerChars == <<"a","b","c","d","e","f","g","h","i","j","k","l","m",
                "n","o","p","q","r","s","t","u","v","w","x","y","z">>

\* str.lower() on one character
LowerChar(c) ==
    IF \E i \in 1..Len(UpperChars) : UpperChars[i] = c
    THEN LowerChars[CHOOSE i \in 1..Len(UpperChars) : UpperChars[i] = c]
    ELSE c

\* str.lower()
Lower(s) == [i \in 1..Len(s) |-> LowerChar(s[i])]

IsSpace(c) == c \in {" ", "\t", "\n"}

\* a str.strip() that strips nothing
Strip_identity(s) == s

RECURSIVE LStrip(_)
LStrip(s) == IF s # <<>> /\ IsSpace(Head(s)) THEN LStrip(Tail(s)) ELSE s

RECURSIVE RStrip(_)
RStrip(s) ==
    IF s # <<>> /\ IsSpace(s[Len(s)]) THEN RStrip(SubSeq(s, 1, Len(s) - 1)) ELSE s

\* str.strip()
Strip(s) == RStrip(LStrip(s))

\* str.endswith(suf)
EndsWith(s, suf) ==
    /\ Len(s) >= Len(suf)
    /\ SubSeq(s, Len(s) - Len(suf) + 1, Len(s)) = suf

\* sub in s
Contains(s, sub) ==
    \E i \in 1..(Len(s) - Len(sub) + 1) : SubSeq(s, i, i + Len(sub) - 1) = sub

DotExe == <<".","e","x","e">>

----------------------------------------------------------------------------
(* The denylist of support processes *)

_STEAM_SUPPORT_PROCS == {
    <<"s","t","e","a","m",".","e","x","e">>,
    <<"s","t","e","a","m","w","e","b","h","e","l","p","e","r",".","e","x","e">>,
    <<"c","r","a","s","h","h","a","n","d","l","e","r",".","e","x","e">>,
    <<"v","r","c","o","m","p","o","s","i","t","o","r",".","e","x","e">>,
    <<"v","r","s","e","r","v","e","r",".","e","x","e">>,
    <<"v","r","m","o","n","i","t","o","r",".","e","x","e">>,
    <<"s","t","e","a","m","e","r","r","o","r","r","e","p","o","r","t","e","r",".","e","x","e">>,
    <<"s","t","e","a","m","s","e","r","v","i","c","e",".","e","x","e">>,
    <<"e","a","c","_","l","a","u","n","c","h","e","r","v","2",".","e","x","e">>,
    <<"e","a","c","_","l","a","u","n","c","h","e","r",".","e","x","e">>,
    <<"s","t","a","r","t","_","p","r","o","t","e","c","t","e","d","_","g","a","m","e",".","e","x","e">>,
    <<"b","a","t","t","l","e","y","e","l","a","u","n","c","h","e","r",".","e","x","e">>,
    <<"s","t","e","a","m","v","r","_","d","e","s","k","t","o","p","_","g","a","m","e","_","t","h","e","a","t","e","r",".","e","x","e">>,
    <<"s","t","e","a","m","t","o","u","r","s",".","e","x","e">> }

----------------------------------------------------------------------------
(* Image names and hints the model draws its inputs from *)

EmptyStr == <<>>
GameImg == <<"g",".","e","x","e">>
GameImgUpper == <<"G",".","E","X","E">>
SteamImg == <<"s","t","e","a","m",".","e","x","e">>
VrServerImg == <<"V","R","S","e","r","v","e","r",".","e","x","e">>
ToolImg == <<"t","o","o","l">>
OtherImg == <<"c",".","e","x","e">>
UpdaterImg == <<"U","p","d","a","t","e","r",".","e","x","e">>
SetupImg == <<"s","e","t","u","p",".","e","x","e">>

----------------------------------------------------------------------------
(* The OS process table (tasklist / taskkill / psutil) *)

NoPid == 0

\* The launcher's own clock reading when the model starts.
StartTime == 10

\* time.sleep(1.0), in tenths of a second
SleepTenths == 10

\* the grace window "ctime + 0.5 < t0", in tenths of a second
GraceTenths == 5

\* timeout_s=3 of one watcher detection attempt, in tenths of a second
AttemptTimeout == 30

\* PIDs of the processes that are not spawned by the launcher itself
ExtPids == {1, 2}

\* What runs under an external PID: a game (reported with the case of its
\* file name), a support process of the client, another game.
ExtName(p) ==
    CASE p % 3 = 1 -> GameImgUpper
      [] p % 3 = 2 -> SteamImg
      [] OTHER     -> GameImg

\* the PID the client (steam.exe) runs under
ClientPid == CHOOSE p \in ExtPids : ExtName(p) = SteamImg

ExtRss(p) == IF p % 3 = 2 THEN 2 ELSE 1

_pid_alive(tbl, pid) == \E i \in 1..Len(tbl) : tbl[i].pid = pid

\* taskkill /PID pid /T /F; ok: whether taskkill managed to kill
_kill_tree(tbl, pid, ok) ==
    IF ok THEN SelectSeq(tbl, LAMBDA e : e.pid # pid) ELSE tbl

\* taskkill /IM img /T /F; nothing is run for an empty name
_taskkill_image(tbl, img_name, ok) ==
    IF img_name = EmptyStr \/ ~ok THEN tbl
    ELSE SelectSeq(tbl, LAMBDA e : Lower(e.name) # Lower(img_name))

\* tasklist /FO CSV /NH: the lower-cased image names
_tasklist_images(tbl) == { Lower(tbl[i].name) : i \in 1..Len(tbl) }

----------------------------------------------------------------------------
(* _SteamTrackedProc *)

TrackedInit(tbl, pid, img) ==
    [ kind  |-> "steam",
      img   |-> Lower(Strip(img)),
      alive |-> TRUE,
      pid   |-> IF pid # 0 /\ _pid_alive(tbl, pid) THEN pid ELSE NoPid ]

\* attach_pid without its "_pid_alive(pid)" test
attach_pid_unchecked(h, tbl, pid, img_hint) ==
    IF pid # 0
    THEN [h EXCEPT !.pid = pid,
                   !.img = IF img_hint # EmptyStr THEN Lower(img_hint) ELSE @,
                   !.alive = TRUE]
    ELSE h

attach_pid(h, tbl, pid, img_hint) ==
    IF pid # 0 /\ _pid_alive(tbl, pid)
    THEN [h EXCEPT !.pid = pid,
                   !.img = IF img_hint # EmptyStr THEN Lower(img_hint) ELSE @,
                   !.alive = TRUE]
    ELSE h

\* a poll() that asks the process table again after it has reported "exited"
poll_requerying(h, tbl) ==
    IF h.pid # NoPid THEN [h EXCEPT !.alive = _pid_alive(tbl, h.pid)] ELSE h

\* a poll() that asks the process table even without a PID
poll_querying(h, tbl) ==
    IF ~h.alive THEN h ELSE [h EXCEPT !.alive = _pid_alive(tbl, h.pid)]

\* the handle after poll()
poll(h, tbl) ==
    IF ~h.alive THEN h
    ELSE IF h.pid # NoPid THEN [h EXCEPT !.alive = _pid_alive(tbl, h.pid)]
    ELSE h

\* what poll() returns: None ("running") or 0 ("exited")
pollResult(h, tbl) == IF poll(h, tbl).alive THEN "running" ELSE "exited"

\* a terminate() that leaves the handle alive
terminate_unmarked(h) == h

\* a terminate() that also forgets the PID
terminate_forgetting(h) == [h EXCEPT !.alive = FALSE, !.pid = NoPid]

\* the handle after terminate()
terminate(h) == [h EXCEPT !.alive = FALSE]

\* the process table after terminate(); ok1, ok2: whether each taskkill worked
terminateKills(h, tbl, ok1, ok2) ==
    LET t1 == IF h.pid # NoPid THEN _kill_tree(tbl, h.pid, ok1) ELSE tbl
    IN  IF h.img # EmptyStr THEN _taskkill_image(t1, h.img, ok2) ELSE t1

\* the taskkill invocations terminate() makes
terminateCalls(h) ==
    (IF h.pid # NoPid THEN 1 ELSE 0) + (IF h.img # EmptyStr THEN 1 ELSE 0)

----------------------------------------------------------------------------
(* _detect_proc_psutil *)

NoBest == [pid |-> 0, name |-> EmptyStr, rss |-> 0]

\* the for loop's body without "if name in _STEAM_SUPPORT_PROCS: continue"
DetectStep_nodeny(best, p, t0) ==
    LET name == Lower(p.name) IN
    IF ~EndsWith(name, DotExe) THEN best
    ELSE IF p.create_time + GraceTenths < t0 THEN best
    ELSE IF p.rss >= best.rss THEN [pid |-> p.pid, name |-> name, rss |-> p.rss]
    ELSE best

\* the for loop's body without "if not name.endswith('.exe'): continue"
DetectStep_noexe(best, p, t0) ==
    LET name == Lower(p.name) IN
    IF name \in _STEAM_SUPPORT_PROCS THEN best
    ELSE IF p.create_time + GraceTenths < t0 THEN best
    ELSE IF p.rss >= best.rss THEN [pid |-> p.pid, name |-> name, rss |-> p.rss]
    ELSE best

\* the for loop's body with "if ctime < t0: continue": no grace window
DetectStep_nograce(best, p, t0) ==
    LET name == Lower(p.name) IN
    IF ~EndsWith(name, DotExe) THEN best
    ELSE IF name \in _STEAM_SUPPORT_PROCS THEN best
    ELSE IF p.create_time < t0 THEN best
    ELSE IF p.rss >= best.rss THEN [pid |-> p.pid, name |-> name, rss |-> p.rss]
    ELSE best

\* the for loop's body with "if rss > best_rss": the first of equals stays
DetectStep_strict(best, p, t0) ==
    LET name == Lower(p.name) IN
    IF ~EndsWith(name, DotExe) THEN best
    ELSE IF name \in _STEAM_SUPPORT_PROCS THEN best
    ELSE IF p.create_time + GraceTenths < t0 THEN best
    ELSE IF p.rss > best.rss THEN [pid |-> p.pid, name |-> name, rss |-> p.rss]
    ELSE best

\* one candidate of the for loop, given the best so far
DetectStep(best, p, t0) ==
    LET name == Lower(p.name) IN
    IF ~EndsWith(name, DotExe) THEN best
    ELSE IF name \in _STEAM_SUPPORT_PROCS THEN best
    ELSE IF p.create_time + GraceTenths < t0 THEN best
    ELSE IF p.rss >= best.rss THEN [pid |-> p.pid, name |-> name, rss |-> p.rss]
    ELSE best

\* one pass of "for p in psutil.process_iter(...)" over the table
RECURSIVE DetectScan(_, _, _)
DetectScan(best, tbl, t0) ==
    IF tbl = <<>> THEN best
    ELSE DetectScan(DetectStep(best, Head(tbl), t0), Tail(tbl), t0)

\* One turn of "while time.time() < end" at time t, with psutil present or
\* not: "none" is the return of (0, ""), "found" the return of a candidate,
\* "sleep" the time.sleep(1.0) before the next turn.  best_* is still its
\* initial value at the top of each turn: a turn that found a candidate has
\* returned.
_detect_proc_psutil(tbl, t0, end, t, ps_ok) ==
    LET best == DetectScan(NoBest, tbl, t0) IN
    IF ~ps_ok \/ t >= end THEN [st |-> "none", pid |-> 0, name |-> EmptyStr]
    ELSE IF best.pid # 0 THEN [st |-> "found", pid |-> best.pid, name |-> best.name]
    ELSE [st |-> "sleep", pid |-> 0, name |-> EmptyStr]

----------------------------------------------------------------------------
(* State shared by the specifications *)

osVars == <<procs, now, PS_OK>>
mgrVars == <<_current_proc, _extra_procs, mpc, lv, nLaunch, nextPid>>
vars == <<procs, now, PS_OK, det, handles, watcher, last, terminated,
          _current_proc, _extra_procs, mpc, lv, nLaunch, nextPid>>

NoHandle == 0

\* op: the call; h: the handle it was made on or returned; g: the game
\* launched; pid: the PID given to attach; ret: what the call returned or
\* raised; kills: the taskkill invocations it made.
\* client: for a Client launch that got to starting the client, the install
\* paths and os.startfile as they were (see ClientEnv)
NoClient == [exists |-> <<>>, spawns |-> <<>>, startfile |-> FALSE]

NoCall ==
    [op |-> "none", h |-> 0, g |-> 0, pid |-> 0, ret |-> "none", kills |-> 0,
     client |-> NoClient]

Call(op, h, ret) == [NoCall EXCEPT !.op = op, !.h = h, !.ret = ret]

WatcherOff ==
    [pc |-> "off", t0 |-> 0, img_hint |-> EmptyStr, end |-> 0, dEnd |-> 0,
     pid |-> 0, img |-> EmptyStr]

\* threading.Thread(target=_steam_attach_watcher, args=(proc, t0, kill_img, 90))
WatcherThread(t0, img_hint) ==
    [pc |-> "start", t0 |-> t0, img_hint |-> img_hint, end |-> 0, dEnd |-> 0,
     pid |-> 0, img |-> EmptyStr]

NoLaunch ==
    [g |-> 0, t0 |-> 0, baseline |-> {}, kill_img |-> EmptyStr, end |-> 0,
     timeout_s |-> 0, tl_t0 |-> 0, pid |-> 0, img |-> EmptyStr]

HandleIds == 1..Len(handles)

\* no call of _detect_proc_psutil on its own is under way
NoDetect ==
    [pc |-> "off", t0 |-> 0, timeout_s |-> 0, end |-> 0, pid |-> 0, name |-> EmptyStr]

----------------------------------------------------------------------------
(* The environment: processes start and exit on their own *)

ProcEntry(pid, name, rss) ==
    [pid |-> pid, name |-> name, create_time |-> now, rss |-> rss]

\* An external process starts.
ProcStart(p) ==
    /\ ~_pid_alive(procs, p)
    /\ procs' = Append(procs, ProcEntry(p, ExtName(p), ExtRss(p)))
    /\ last' = NoCall
    /\ UNCHANGED <<now, PS_OK, det, handles, watcher, terminated, mgrVars>>

ProcExit(p) ==
    /\ _pid_alive(procs, p)
    /\ procs' = _kill_tree(procs, p, TRUE)
    /\ last' = NoCall
    /\ UNCHANGED <<now, PS_OK, det, handles, watcher, terminated, mgrVars>>

----------------------------------------------------------------------------
(* subprocess.Popen, as GameProcess uses it *)

PopenInit(pid) == [kind |-> "popen", img |-> EmptyStr, alive |-> TRUE, pid |-> pid]

\* Popen.poll(): the return code, once read, stays
popen_poll(h, tbl) ==
    IF ~h.alive THEN h ELSE [h EXCEPT !.alive = _pid_alive(tbl, h.pid)]

----------------------------------------------------------------------------
(* GameProcess *)

GameProcess_poll(h, tbl) == IF h.kind = "steam" THEN poll(h, tbl) ELSE popen_poll(h, tbl)

\* a poll() that never sees the process exit
GameProcess_pollResult_running(h, tbl) == "running"

GameProcess_pollResult(h, tbl) ==
    IF GameProcess_poll(h, tbl).alive THEN "running" ELSE "exited"

GameProcess_terminate(h) == IF h.kind = "steam" THEN terminate(h) ELSE h

\* Popen.terminate() ends the process itself; ok1: whether it could
GameProcess_terminateKills(h, tbl, ok1, ok2) ==
    IF h.kind = "steam" THEN terminateKills(h, tbl, ok1, ok2)
    ELSE _kill_tree(tbl, h.pid, ok1)

GameProcess_terminateCalls(h) == IF h.kind = "steam" THEN terminateCalls(h) ELSE 0

----------------------------------------------------------------------------
(* Calls on a handle: GameProcess.poll / GameProcess.terminate, attach_pid *)

Poll(i) ==
    /\ mpc = "idle"
    /\ handles' = [handles EXCEPT ![i] = GameProcess_poll(@, procs)]
    /\ last' = Call("poll", i, GameProcess_pollResult(handles[i], procs))
    /\ UNCHANGED <<procs, now, PS_OK, det, watcher, terminated, mgrVars>>

Terminate(i, ok1, ok2) ==
    /\ mpc = "idle"
    /\ handles' = [handles EXCEPT ![i] = GameProcess_terminate(@)]
    /\ procs' = GameProcess_terminateKills(handles[i], procs, ok1, ok2)
    /\ terminated' = terminated \cup {i}
    /\ last' = [Call("terminate", i, "none") EXCEPT
                  !.kills = GameProcess_terminateCalls(handles[i])]
    /\ UNCHANGED <<now, PS_OK, det, watcher, mgrVars>>

Attach(i, pid, img_hint) ==
    /\ handles' = [handles EXCEPT ![i] = attach_pid(@, procs, pid, img_hint)]
    /\ last' = [Call("attach", i, "none") EXCEPT !.pid = pid]
    /\ UNCHANGED <<procs, now, PS_OK, det, watcher, terminated, mgrVars>>

----------------------------------------------------------------------------
(* _steam_attach_watcher, one step per blocking call *)

\* if proc_obj.pid is not None: return;  end = time.time() + timeout
WatcherStart(i) ==
    /\ watcher[i].pc = "start"
    /\ watcher' = [watcher EXCEPT ![i] =
          IF handles[i].pid # NoPid THEN [@ EXCEPT !.pc = "done"]
          ELSE [@ EXCEPT !.pc = "loop", !.end = now + WatcherTimeout]]
    /\ last' = NoCall
    /\ UNCHANGED <<procs, now, PS_OK, det, handles, terminated, mgrVars>>

\* while time.time() < end: if proc_obj.poll() is not None: return
WatcherLoop(i) ==
    /\ watcher[i].pc = "loop"
    /\ IF now < watcher[i].end
       THEN /\ handles' = [handles EXCEPT ![i] = poll(@, procs)]
            /\ watcher' = [watcher EXCEPT ![i] =
                  IF pollResult(handles[i], procs) = "exited"
                  THEN [@ EXCEPT !.pc = "done"]
                  ELSE [@ EXCEPT !.pc = "detect", !.dEnd = now + AttemptTimeout]]
       ELSE /\ watcher' = [watcher EXCEPT ![i].pc = "timeout"]
            /\ UNCHANGED handles
    /\ last' = NoCall
    /\ UNCHANGED <<procs, now, PS_OK, det, terminated, mgrVars>>

\* pid, img = _detect_proc_psutil(t0, timeout_s=3): one poll cycle
WatcherDetect(i) ==
    /\ watcher[i].pc = "detect"
    /\ LET r == _detect_proc_psutil(procs, watcher[i].t0, watcher[i].dEnd, now, PS_OK) IN
       IF r.st = "none"
       THEN /\ watcher' = [watcher EXCEPT ![i].pc = "sleep"]
            /\ UNCHANGED now
       ELSE IF r.st = "found"
       THEN /\ watcher' = [watcher EXCEPT ![i] =
                  [@ EXCEPT !.pc = "attach", !.pid = r.pid, !.img = r.name]]
            /\ UNCHANGED now
       ELSE /\ now' = now + SleepTenths
            /\ UNCHANGED watcher
    /\ last' = NoCall
    /\ UNCHANGED <<procs, PS_OK, det, handles, terminated, mgrVars>>

\* proc_obj.attach_pid(pid, img_hint or img); return
WatcherAttach(i) ==
    /\ watcher[i].pc = "attach"
    /\ LET w == watcher[i]
           hint == IF w.img_hint # EmptyStr THEN w.img_hint ELSE w.img
       IN  /\ handles' = [handles EXCEPT ![i] = attach_pid(@, procs, w.pid, hint)]
           /\ last' = [Call("watcher_attach", i, "none") EXCEPT !.pid = w.pid]
    /\ watcher' = [watcher EXCEPT ![i].pc = "done"]
    /\ UNCHANGED <<procs, now, PS_OK, det, terminated, mgrVars>>

\* time.sleep(1.0)
WatcherSleep(i) ==
    /\ watcher[i].pc = "sleep"
    /\ now' = now + SleepTenths
    /\ watcher' = [watcher EXCEPT ![i].pc = "loop"]
    /\ last' = NoCall
    /\ UNCHANGED <<procs, PS_OK, det, handles, terminated, mgrVars>>

WatcherNext(i) ==
    \/ WatcherStart(i)
    \/ WatcherLoop(i)
    \/ WatcherDetect(i)
    \/ WatcherAttach(i)
    \/ WatcherSleep(i)

----------------------------------------------------------------------------
(* Game configurations and the file system *)

PathGame == <<"g",".","e","x","e">>
PathA == <<"a",".","e","x","e">>
PathB == <<"b",".","e","x","e">>
PathMissing == <<"m">>
PathBad == <<"d">>
AppId == <<"7">>
Blank == <<" ">>

\* Path(p).exists()
Exists(path) == path \in {PathGame, PathA, PathB, PathBad}

\* whether subprocess.Popen([path, ...]) starts a process or raises
CanSpawn(path) == path \in {PathGame, PathA, PathB}

Game(is_steam, exe_path, steam_app_id, steam_proc_name, extra_apps) ==
    [is_steam |-> is_steam, exe_path |-> exe_path, steam_app_id |-> steam_app_id,
     steam_proc_name |-> steam_proc_name, extra_apps |-> extra_apps]

Games == <<
    Game(FALSE, PathGame \o Blank, EmptyStr, EmptyStr,
         <<PathA, PathMissing, Blank, PathBad, Blank \o PathB>>),
    Game(FALSE, PathMissing, AppId, EmptyStr, <<PathA>>),
    Game(FALSE, Blank, AppId, EmptyStr, <<PathA>>),
    Game(FALSE, PathBad, EmptyStr, EmptyStr, <<PathA>>),
    Game(TRUE, PathGame, AppId, EmptyStr, <<PathBad>>),
    Game(TRUE, EmptyStr, Blank \o AppId, Blank \o GameImgUpper, <<>>),
    Game(TRUE, PathGame, Blank, GameImg, <<PathA>>) >>

\* The client's two install paths (which exist, and whether Popen of each
\* works) and os.startfile (whether it works).
ClientEnv(e1, s1, e2, s2, sf) ==
    [exists |-> <<e1, e2>>, spawns |-> <<s1, s2>>, startfile |-> sf]

ClientEnvs ==
    { ClientEnv(TRUE, TRUE, TRUE, TRUE, TRUE),
      ClientEnv(TRUE, FALSE, TRUE, TRUE, FALSE),
      ClientEnv(FALSE, FALSE, TRUE, TRUE, FALSE),
      ClientEnv(TRUE, FALSE, FALSE, FALSE, TRUE),
      ClientEnv(FALSE, FALSE, FALSE, FALSE, TRUE),
      ClientEnv(TRUE, FALSE, TRUE, FALSE, FALSE),
      ClientEnv(FALSE, FALSE, FALSE, FALSE, FALSE) }

----------------------------------------------------------------------------
(* ProcessManager *)

\* a _launch_extra_apps that starts nothing
_launch_extra_apps_none(extra_apps, st) == st

\* _launch_extra_apps: st is the process table, the _extra_procs list built
\* so far and the next free PID
RECURSIVE _launch_extra_apps(_, _)
_launch_extra_apps(extra_apps, st) ==
    IF extra_apps = <<>> THEN st
    ELSE LET app_path_str == Strip(Head(extra_apps)) IN
         IF app_path_str = EmptyStr \/ ~Exists(app_path_str) \/ ~CanSpawn(app_path_str)
         THEN _launch_extra_apps(Tail(extra_apps), st)
         ELSE _launch_extra_apps(Tail(extra_apps),
                [ procs   |-> Append(st.procs, ProcEntry(st.nextPid, app_path_str, 1)),
                  extra   |-> Append(st.extra, PopenInit(st.nextPid)),
                  nextPid |-> st.nextPid + 1 ])

\* a launch() whose _launch_extra_apps skips "self._extra_procs.clear()"
LaunchDone_merging(g, proc, w, tbl, pid) ==
    LET st == _launch_extra_apps(Games[g].extra_apps,
                 [procs |-> tbl, extra |-> _extra_procs, nextPid |-> pid])
    IN  /\ handles' = Append(handles, proc)
        /\ watcher' = Append(watcher, w)
        /\ _current_proc' = Len(handles) + 1
        /\ procs' = st.procs
        /\ _extra_procs' = st.extra
        /\ nextPid' = st.nextPid
        /\ nLaunch' = nLaunch + 1
        /\ last' = [Call("launch", Len(handles) + 1, "ok") EXCEPT !.g = g]

\* self._current_proc = proc; self._launch_extra_apps(game); return proc
LaunchDone(g, proc, w, tbl, pid) ==
    LET st == _launch_extra_apps(Games[g].extra_apps,
                 [procs |-> tbl, extra |-> <<>>, nextPid |-> pid])
    IN  /\ handles' = Append(handles, proc)
        /\ watcher' = Append(watcher, w)
        /\ _current_proc' = Len(handles) + 1
        /\ procs' = st.procs
        /\ _extra_procs' = st.extra
        /\ nextPid' = st.nextPid
        /\ nLaunch' = nLaunch + 1
        /\ last' = [Call("launch", Len(handles) + 1, "ok") EXCEPT !.g = g]

\* a launch() that empties the auxiliary list when it raises
LaunchFails_clearing(g, err) ==
    /\ last' = [Call("launch", NoHandle, err) EXCEPT !.g = g]
    /\ _extra_procs' = <<>>
    /\ UNCHANGED <<procs, now, PS_OK, det, handles, watcher, terminated,
                   _current_proc, mpc, lv, nLaunch, nextPid>>

\* a launch() that drops the current handle when it raises
LaunchFails_unsetting(g, err) ==
    /\ last' = [Call("launch", NoHandle, err) EXCEPT !.g = g]
    /\ _current_proc' = NoHandle
    /\ UNCHANGED <<procs, now, PS_OK, det, handles, watcher, terminated,
                   _extra_procs, mpc, lv, nLaunch, nextPid>>

\* launch() raises: nothing was assigned
LaunchFails(g, err) ==
    /\ last' = [Call("launch", NoHandle, err) EXCEPT !.g = g]
    /\ UNCHANGED <<procs, now, PS_OK, det, handles, watcher, terminated, mgrVars>>

\* launch(game) with game.is_steam false: _launch_exe, then the extra apps
LaunchExe(g) ==
    /\ mpc = "idle"
    /\ ~Games[g].is_steam
    /\ LET exe == Strip(Games[g].exe_path) IN
       IF exe = EmptyStr THEN LaunchFails(g, "ValueError")
       ELSE IF ~Exists(exe) THEN LaunchFails(g, "FileNotFoundError")
       ELSE IF ~CanSpawn(exe) THEN LaunchFails(g, "RuntimeError")
       ELSE /\ nLaunch < MaxLaunch
            /\ LaunchDone(g, PopenInit(nextPid), WatcherOff,
                          Append(procs, ProcEntry(nextPid, exe, 1)), nextPid + 1)
            /\ UNCHANGED <<now, PS_OK, det, terminated, mpc, lv>>

\* a _launch_steam_exe that gives up when the first existing path fails
_launch_steam_exe_first(client) ==
    IF client.exists[1] THEN (IF client.spawns[1] THEN 1 ELSE 0)
    ELSE IF client.exists[2] /\ client.spawns[2] THEN 2
    ELSE 0

\* _launch_steam_exe: the first install path that exists and starts, or 0
_launch_steam_exe(client) ==
    IF client.exists[1] /\ client.spawns[1] THEN 1
    ELSE IF client.exists[2] /\ client.spawns[2] THEN 2
    ELSE 0

\* _launch_steam_protocol
_launch_steam_protocol(client) == client.startfile

\* The client runs as one process: starting it again hands over to the
\* running one.
ClientStarted(tbl) ==
    IF _pid_alive(tbl, ClientPid) THEN tbl
    ELSE Append(tbl, ProcEntry(ClientPid, ExtName(ClientPid), ExtRss(ClientPid)))

\* _launch_steam raises RuntimeError: neither steam.exe nor steam:// worked
ClientUnreachable(g, client) ==
    /\ last' = [Call("launch", NoHandle, "RuntimeError") EXCEPT !.g = g, !.client = client]
    /\ UNCHANGED <<procs, now, PS_OK, det, handles, watcher, terminated, mgrVars>>

\* the surface that started the client: the install path used, or steam://,
\* which is tried only after _launch_steam_exe returned False
ClientSurface(client) ==
    IF _launch_steam_exe(client) = 1 THEN "exe1"
    ELSE IF _launch_steam_exe(client) = 2 THEN "exe2"
    ELSE IF _launch_steam_protocol(client) THEN "protocol"
    ELSE "none"

\* launch(game) with game.is_steam: _launch_steam up to the start of the client
LaunchSteam(g, client) ==
    /\ mpc = "idle"
    /\ Games[g].is_steam
    /\ LET app_id == Strip(Games[g].steam_app_id)
           kill_img == Lower(Strip(Games[g].steam_proc_name))
           launched == ClientSurface(client) # "none"
       IN
       IF app_id = EmptyStr THEN LaunchFails(g, "ValueError")
       ELSE IF ~launched THEN ClientUnreachable(g, client)
       ELSE /\ nLaunch < MaxSteamLaunch
            /\ procs' = ClientStarted(procs)
            /\ mpc' = "detect"
            /\ lv' = [ g |-> g, t0 |-> now, baseline |-> _tasklist_images(procs),
                       kill_img |-> kill_img, end |-> now + STEAM_DETECT_TIMEOUT,
                       timeout_s |-> STEAM_DETECT_TIMEOUT,
                       tl_t0 |-> 0, pid |-> 0, img |-> kill_img ]
            /\ last' = [Call("client", NoHandle, ClientSurface(client))
                          EXCEPT !.g = g, !.client = client]
            /\ UNCHANGED <<now, PS_OK, det, handles, watcher, terminated,
                           _current_proc, _extra_procs, nLaunch, nextPid>>

\* pid, detected_img = _detect_proc_psutil(t0, STEAM_DETECT_TIMEOUT): one
\* poll cycle
LaunchDetect ==
    /\ mpc = "detect"
    /\ LET r == _detect_proc_psutil(procs, lv.t0, lv.end, now, PS_OK) IN
       IF r.st = "none"
       THEN /\ IF lv.kill_img = EmptyStr
               THEN /\ mpc' = "tasklist"
                    /\ lv' = [lv EXCEPT !.tl_t0 = now]
               ELSE /\ mpc' = "construct"
                    /\ lv' = lv
            /\ UNCHANGED now
       ELSE IF r.st = "found"
       THEN /\ mpc' = "construct"
            /\ lv' = [lv EXCEPT !.pid = r.pid,
                                !.img = IF lv.kill_img # EmptyStr THEN lv.kill_img
                                        ELSE r.name]
            /\ UNCHANGED now
       ELSE /\ now' = now + SleepTenths
            /\ UNCHANGED <<mpc, lv>>
    /\ last' = NoCall
    /\ UNCHANGED <<procs, PS_OK, det, handles, watcher, terminated,
                   _current_proc, _extra_procs, nLaunch, nextPid>>

\* one cycle of _detect_proc_tasklist: the new image names
TasklistNew(tbl, baseline) ==
    { n \in _tasklist_images(tbl) \ baseline :
        EndsWith(n, DotExe) /\ n \notin _STEAM_SUPPORT_PROCS }

\* a secondary filter that keeps every name
TasklistPrefer_all(new) == new

TasklistPrefer(new) ==
    { n \in new :
        /\ ~Contains(n, <<"l","a","u","n","c","h","e","r">>)
        /\ ~Contains(n, <<"s","e","t","u","p">>)
        /\ ~Contains(n, <<"u","p","d","a","t","e","r">>)
        /\ ~Contains(n, <<"i","n","s","t","a","l","l">>) }

\* what one cycle returns, or "" when it goes on to sleep
TasklistPick(new) ==
    IF Cardinality(new) = 1 THEN CHOOSE n \in new : TRUE
    ELSE IF Cardinality(new) > 1 /\ Cardinality(TasklistPrefer(new)) = 1
    THEN CHOOSE n \in TasklistPrefer(new) : TRUE
    ELSE EmptyStr

\* kill_img = _detect_proc_tasklist(baseline_imgs, timeout_s): one poll
\* cycle; the call starts at lv.tl_t0
LaunchTasklist ==
    /\ mpc = "tasklist"
    /\ LET found == TasklistPick(TasklistNew(procs, lv.baseline)) IN
       IF now - lv.tl_t0 >= lv.timeout_s
       THEN /\ mpc' = "construct"
            /\ UNCHANGED <<now, lv>>
       ELSE IF found # EmptyStr
       THEN /\ mpc' = "construct"
            /\ lv' = [lv EXCEPT !.kill_img = found, !.img = found]
            /\ UNCHANGED now
       ELSE /\ now' = now + SleepTenths
            /\ UNCHANGED <<mpc, lv>>
    /\ last' = NoCall
    /\ UNCHANGED <<procs, PS_OK, det, handles, watcher, terminated,
                   _current_proc, _extra_procs, nLaunch, nextPid>>

\* a _launch_steam that starts the watcher thread whatever proc.pid is
LaunchConstruct_always ==
    /\ mpc = "construct"
    /\ LaunchDone(lv.g, TrackedInit(procs, lv.pid, lv.img),
                  WatcherThread(lv.t0, lv.kill_img), procs, nextPid)
    /\ mpc' = "idle"
    /\ lv' = NoLaunch
    /\ UNCHANGED <<now, PS_OK, det, terminated>>

\* proc = _SteamTrackedProc(...); the watcher thread if proc.pid is None;
\* then the rest of launch()
LaunchConstruct ==
    /\ mpc = "construct"
    /\ LET proc == TrackedInit(procs, lv.pid, lv.img)
           w == IF proc.pid = NoPid THEN WatcherThread(lv.t0, lv.kill_img)
                ELSE WatcherOff
       IN  LaunchDone(lv.g, proc, w, procs, nextPid)
    /\ mpc' = "idle"
    /\ lv' = NoLaunch
    /\ UNCHANGED <<now, PS_OK, det, terminated>>

\* a _kill_extra_apps that kills nothing
_kill_extra_apps_none(extras, st, oks, k) == st

\* _kill_extra_apps: st is the process table and the taskkill invocations so
\* far; oks[k]: whether the taskkills of the extra apps work
RECURSIVE _kill_extra_apps(_, _, _, _)
_kill_extra_apps(extras, st, oks, k) ==
    IF extras = <<>> THEN st
    ELSE LET p == Head(extras) IN
         IF popen_poll(p, st.procs).alive
         THEN _kill_extra_apps(Tail(extras),
                [procs |-> _kill_tree(st.procs, p.pid, oks[k]), kills |-> st.kills + 1],
                oks, k)
         ELSE _kill_extra_apps(Tail(extras), st, oks, k)

\* oks[1], oks[2]: the two kills of the current handle's terminate();
\* oks[3]: the taskkills of the extra apps
KillOutcomes == [1..3 -> BOOLEAN]

kill_current(oks) ==
    /\ mpc = "idle"
    /\ LET cur == _current_proc
           t1 == IF cur # NoHandle
                 THEN GameProcess_terminateKills(handles[cur], procs, oks[1], oks[2])
                 ELSE procs
           k1 == IF cur # NoHandle THEN GameProcess_terminateCalls(handles[cur]) ELSE 0
           st == _kill_extra_apps(_extra_procs, [procs |-> t1, kills |-> k1], oks, 3)
       IN  /\ handles' = IF cur # NoHandle
                         THEN [handles EXCEPT ![cur] = GameProcess_terminate(@)]
                         ELSE handles
           /\ terminated' = IF cur # NoHandle THEN terminated \cup {cur} ELSE terminated
           /\ procs' = st.procs
           /\ last' = [Call("kill_current", cur, "none") EXCEPT !.kills = st.kills]
    /\ _current_proc' = NoHandle
    /\ _extra_procs' = <<>>
    /\ UNCHANGED <<now, PS_OK, det, watcher, mpc, lv, nLaunch, nextPid>>

is_running ==
    /\ mpc = "idle"
    /\ IF _current_proc = NoHandle
       THEN /\ last' = Call("is_running", NoHandle, "false")
            /\ UNCHANGED handles
       ELSE /\ handles' = [handles EXCEPT ![_current_proc] = GameProcess_poll(@, procs)]
            /\ last' = Call("is_running", _current_proc,
                  IF GameProcess_pollResult(handles[_current_proc], procs) = "running"
                  THEN "true" ELSE "false")
    /\ UNCHANGED <<procs, now, PS_OK, det, watcher, terminated, mgrVars>>

----------------------------------------------------------------------------
(* Spec: the launcher's ProcessManager, its caller, the watchers it starts *)
(* and the processes around it                                             *)

\* psutil is installed here; the build without it is in SpecHandle and
\* SpecDetect.
Init ==
    /\ procs = <<>>
    /\ now = StartTime
    /\ PS_OK = TRUE
    /\ det = NoDetect
    /\ handles = <<>>
    /\ watcher = <<>>
    /\ last = NoCall
    /\ terminated = {}
    /\ _current_proc = NoHandle
    /\ _extra_procs = <<>>
    /\ mpc = "idle"
    /\ lv = NoLaunch
    /\ nLaunch = 0
    /\ nextPid = 3

AlivePids == { procs[k].pid : k \in 1..Len(procs) }

Next ==
    \/ \E p \in ExtPids \ {ClientPid} : _pid_alive(procs, ClientPid) /\ ProcStart(p)
    \/ \E p \in AlivePids : ProcExit(p)
    \/ \E g \in 1..Len(Games) : LaunchExe(g)
    \/ \E g \in 1..Len(Games), client \in ClientEnvs : LaunchSteam(g, client)
    \/ LaunchDetect
    \/ LaunchTasklist
    \/ LaunchConstruct
    \/ \E oks \in KillOutcomes : kill_current(oks)
    \/ is_running
    \/ \E i \in HandleIds : WatcherNext(i)

Spec == Init /\ [][Next]_vars

----------------------------------------------------------------------------
(* SpecHandle: one _SteamTrackedProc, its watcher, and any order of calls *)

HintInputs == {EmptyStr, GameImgUpper}

InitTables ==
    { <<>>,
      <<[pid |-> 1, name |-> ExtName(1), create_time |-> StartTime - 6, rss |-> ExtRss(1)]>> }

InitHandle ==
    /\ procs \in InitTables
    /\ now = StartTime
    /\ PS_OK \in BOOLEAN
    /\ det = NoDetect
    /\ \E pid \in 0..1, img \in {EmptyStr, <<" ">> \o GameImgUpper} :
          handles = <<TrackedInit(procs, pid, img)>>
    /\ \E started \in BOOLEAN :
          watcher = << IF started THEN WatcherThread(StartTime, handles[1].img)
                       ELSE WatcherOff >>
    /\ last = NoCall
    /\ terminated = {}
    /\ _current_proc = NoHandle
    /\ _extra_procs = <<>>
    /\ mpc = "idle"
    /\ lv = NoLaunch
    /\ nLaunch = 0
    /\ nextPid = 3

NextHandle ==
    \/ \E p \in ExtPids : ProcStart(p)
    \/ \E p \in ExtPids : ProcExit(p)
    \/ Poll(1)
    \/ \E ok1, ok2 \in BOOLEAN : Terminate(1, ok1, ok2)
    \/ \E pid \in ExtPids, hint \in HintInputs : Attach(1, pid, hint)
    \/ WatcherNext(1)

SpecHandle == InitHandle /\ [][NextHandle]_vars

----------------------------------------------------------------------------
(* SpecDetect: one call _detect_proc_psutil(t0, timeout_s) over a process  *)
(* table, while processes start and exit                                   *)

\* the longest process table the call starts with
MaxProcs == 2

DetectNames == {GameImgUpper, PathA, SteamImg, VrServerImg, ToolImg}

\* creation times around t0 = StartTime: outside the grace window, on its
\* edge, inside it, and at t0
DetectCtimes ==
    {StartTime - GraceTenths - 1, StartTime - GraceTenths,
     StartTime - GraceTenths + 1, StartTime}

DetectRss == {0, 1}

DetectTimeouts == {0, 10, 20}

\* what a process of the table can be: a game of any age and size, or a
\* support process or tool created at t0 with memory
DetectEntries ==
    { e \in [name : DetectNames, create_time : DetectCtimes, rss : DetectRss] :
        e.name \notin {GameImgUpper, PathA}
            => (e.create_time = StartTime /\ e.rss # 0) }

\* the tables of n processes; their PIDs follow the external ones
RECURSIVE DetectTables(_)
DetectTables(n) ==
    IF n = 0 THEN {<<>>}
    ELSE { Append(t, [pid |-> 2 + n, name |-> e.name,
                      create_time |-> e.create_time, rss |-> e.rss]) :
             t \in DetectTables(n - 1), e \in DetectEntries }

InitDetect ==
    /\ \E n \in 0..MaxProcs : procs \in DetectTables(n)
    /\ now = StartTime
    /\ PS_OK \in BOOLEAN
    /\ \E timeout_s \in DetectTimeouts :
          det = [pc |-> "run", t0 |-> StartTime, timeout_s |-> timeout_s,
                 end |-> StartTime + timeout_s, pid |-> 0, name |-> EmptyStr]
    /\ handles = <<>>
    /\ watcher = <<>>
    /\ last = NoCall
    /\ terminated = {}
    /\ _current_proc = NoHandle
    /\ _extra_procs = <<>>
    /\ mpc = "idle"
    /\ lv = NoLaunch
    /\ nLaunch = 0
    /\ nextPid = 3 + MaxProcs

\* one turn of the while loop, or the return after it
DetectTurn ==
    /\ det.pc = "run"
    /\ LET r == _detect_proc_psutil(procs, det.t0, det.end, now, PS_OK) IN
       IF r.st = "sleep"
       THEN /\ now' = now + SleepTenths
            /\ UNCHANGED det
       ELSE /\ det' = [det EXCEPT !.pc = "done", !.pid = r.pid, !.name = r.name]
            /\ UNCHANGED now
    /\ last' = NoCall
    /\ UNCHANGED <<procs, PS_OK, handles, watcher, terminated, mgrVars>>

NextDetect ==
    \/ DetectTurn
    \/ \E p \in ExtPids : det.pc = "run" /\ ProcStart(p)
    \/ \E p \in ExtPids : det.pc = "run" /\ ProcExit(p)

SpecDetect == InitDetect /\ [][NextDetect]_vars

----------------------------------------------------------------------------
(* SpecTasklist: one call _detect_proc_tasklist(baseline, timeout_s), while *)
(* processes start and exit                                                 *)

TasklistNames == <<PathA, PathB, OtherImg, UpdaterImg, SetupImg, SteamImg, ToolImg>>

\* the longest process table of SpecTasklist
MaxImages == 4

\* the PID of the process that runs image n of TasklistNames
ImagePid(n) == 10 + n

\* A process of the given image starts.
ImageStart(n) ==
    /\ ~_pid_alive(procs, ImagePid(n))
    /\ Len(procs) < MaxImages
    /\ procs' = Append(procs, ProcEntry(ImagePid(n), TasklistNames[n], 1))
    /\ last' = NoCall
    /\ UNCHANGED <<now, PS_OK, det, handles, watcher, terminated, mgrVars>>

\* the processes running when the snapshot before the launch is taken
BaselineTables ==
    { <<>>,
      <<ProcEntry(ImagePid(1), TasklistNames[1], 1)>>,
      <<ProcEntry(ImagePid(1), TasklistNames[1], 1),
        ProcEntry(ImagePid(2), TasklistNames[2], 1)>> }

InitTasklist ==
    /\ now = StartTime
    /\ procs \in BaselineTables
    /\ PS_OK = FALSE
    /\ det = NoDetect
    /\ handles = <<>>
    /\ watcher = <<>>
    /\ last = NoCall
    /\ terminated = {}
    /\ _current_proc = NoHandle
    /\ _extra_procs = <<>>
    /\ mpc = "tasklist"
    /\ \E timeout_s \in DetectTimeouts :
          lv = [NoLaunch EXCEPT !.g = 5, !.t0 = StartTime,
                                !.baseline = _tasklist_images(procs),
                                !.timeout_s = timeout_s, !.tl_t0 = StartTime]
    /\ nLaunch = 0
    /\ nextPid = 3

NextTasklist ==
    \/ LaunchTasklist
    \/ \E n \in 1..Len(TasklistNames) : mpc = "tasklist" /\ ImageStart(n)
    \/ \E p \in AlivePids : mpc = "tasklist" /\ ProcExit(p)

SpecTasklist == InitTasklist /\ [][NextTasklist]_vars

----------------------------------------------------------------------------
(* Claims about _SteamTrackedProc *)

AttachOps == {"attach", "watcher_attach"}

\* C2, as stated: attach(pid, hint) directly followed by poll() reports
\* "running" if and only if pid was alive at attach time, and an attach with
\* a dead PID leaves the handle without a PID and with its hint unchanged.
C2_AttachThenPollIffAlive ==
    [][ last'.op \in AttachOps =>
          LET i == last'.h IN
          /\ pollResult(handles'[i], procs') = "running" <=> _pid_alive(procs, last'.pid)
          /\ ~_pid_alive(procs, last'.pid)
                => /\ handles'[i].pid = NoPid
                   /\ handles'[i].img = handles[i].img ]_vars

\* C2, amended: attach(pid, hint) with a PID alive at attach time, directly
\* followed by poll(), reports "running" and the handle holds that PID; an
\* attach with a dead PID leaves PID, hint and liveness as they were, so an
\* unresolved handle that was not terminated stays unresolved and its poll()
\* still reports "running".
C2_AttachLiveRunsDeadUnchanged ==
    [][ last'.op \in AttachOps =>
          LET i == last'.h IN
          /\ _pid_alive(procs, last'.pid)
                => /\ pollResult(handles'[i], procs') = "running"
                   /\ handles'[i].pid = last'.pid
          /\ ~_pid_alive(procs, last'.pid)
                => /\ handles'[i] = handles[i]
                   /\ (handles[i].pid = NoPid /\ handles[i].alive)
                         => pollResult(handles'[i], procs') = "running" ]_vars

\* An attach with a dead PID was made on an unresolved handle that had not
\* been terminated.
C2_Witness ==
    /\ last.op = "attach" /\ ~_pid_alive(procs, last.pid)
    /\ handles[last.h].pid = NoPid /\ handles[last.h].alive

\* C3, as stated: a second terminate() makes no further kill attempt and
\* changes nothing, and every poll() after a terminate() reports "exited".
C3_TerminateIdempotent ==
    [][ /\ (last'.op = "terminate" /\ last'.h \in terminated)
            => /\ last'.kills = 0
               /\ procs' = procs
               /\ handles' = handles
        /\ (last'.op = "poll" /\ last'.h \in terminated)
            => last'.ret = "exited" ]_vars

\* C14, as stated: a handle goes from unresolved to resolved at most once:
\* an attach on a handle whose PID is already set is ignored and leaves PID
\* and image hint as they were.
C14_AttachOnResolvedIgnored ==
    [][ (last'.op \in AttachOps /\ handles[last'.h].pid # NoPid)
          => /\ handles'[last'.h].pid = handles[last'.h].pid
             /\ handles'[last'.h].img = handles[last'.h].img ]_vars

\* C15: a handle whose PID is present keeps a PID in every later state,
\* whatever poll(), attach(), terminate() calls and process deaths follow.
C15_ResolvedStaysResolved ==
    [][ \A i \in HandleIds :
          handles[i].pid # NoPid => handles'[i].pid # NoPid ]_vars

\* A resolved handle was terminated, its process is gone, and a later poll()
\* reported "exited": the handle still holds its PID.
C15_Witness ==
    /\ last.op = "poll" /\ last.ret = "exited"
    /\ last.h \in terminated
    /\ handles[last.h].pid # NoPid
    /\ ~_pid_alive(procs, handles[last.h].pid)

\* C16: while a handle has no PID and terminate() has not been called on
\* it, every poll() of it (the caller's or the watcher's) reports "still
\* running" and leaves the handle as it was.
C16_UnresolvedPollsRunning ==
    [][ /\ (/\ last'.op = "poll"
            /\ handles[last'.h].pid = NoPid
            /\ last'.h \notin terminated)
            => /\ last'.ret = "running"
               /\ handles' = handles
        /\ \A i \in HandleIds :
             (/\ watcher[i].pc = "loop" /\ watcher'[i].pc # "loop"
              /\ handles[i].pid = NoPid
              /\ i \notin terminated)
                => /\ watcher'[i].pc \in {"detect", "timeout"}
                   /\ handles' = handles
        /\ \A i \in HandleIds :
             (handles[i].pid = NoPid /\ i \notin terminated)
                => pollResult(handles[i], procs) = "running" ]_vars

\* After the watcher gave up, with no process left running, a poll() of the
\* still unresolved handle reported "still running".
C16_Witness ==
    /\ last.op = "poll" /\ last.ret = "running"
    /\ handles[last.h].pid = NoPid
    /\ last.h \notin terminated
    /\ watcher[last.h].pc = "timeout"
    /\ procs = <<>>

\* the entries of the table tbl that are no longer in the table after
Removed(tbl, after) ==
    { k \in 1..Len(tbl) : \A j \in 1..Len(after) : after[j] # tbl[k] }

\* C20: terminate() issues a tree kill for the PID when the handle has one
\* and a kill by image name when its hint is not empty, and nothing else: a
\* process that disappears has that PID or that image name.  It returns
\* normally and leaves the handle marked terminated, with PID and hint as
\* they were, whether the kills worked or not.
C20_TerminateKillsAndMarks ==
    [][ last'.op = "terminate"
          => LET i == last'.h
                 h == handles[i]
             IN  /\ last'.ret = "none"
                 /\ last'.kills = (IF h.pid # NoPid THEN 1 ELSE 0)
                                    + (IF h.img # EmptyStr THEN 1 ELSE 0)
                 /\ \A k \in Removed(procs, procs') :
                       \/ h.pid # NoPid /\ procs[k].pid = h.pid
                       \/ h.img # EmptyStr /\ Lower(procs[k].name) = h.img
                 /\ Len(procs') = Len(procs) - Cardinality(Removed(procs, procs'))
                 /\ ~handles'[i].alive
                 /\ i \in terminated'
                 /\ handles'[i].pid = h.pid
                 /\ handles'[i].img = h.img ]_vars

\* terminate() issued both kills on a resolved handle with a hint, neither
\* removed the process, and the handle is marked terminated all the same.
C20_Witness ==
    /\ last.op = "terminate" /\ last.kills = 2
    /\ ~handles[last.h].alive
    /\ \E k \in 1..Len(procs) :
          /\ procs[k].pid = handles[last.h].pid
          /\ Lower(procs[k].name) = handles[last.h].img

\* C24: the "exited" report is sticky.  A poll() that reports "exited"
\* leaves the handle not alive; a poll() of a handle that is not alive
\* reports "exited" and changes nothing, whether or not its PID is alive
\* (again) in the process table; the watcher's poll of such a handle ends the
\* watcher; and a handle that is not alive becomes alive again only through
\* an attach with a PID that is alive.
C24_ExitedIsSticky ==
    [][ /\ last'.op = "poll"
            => /\ last'.ret = "exited" => ~handles'[last'.h].alive
               /\ ~handles[last'.h].alive
                    => (last'.ret = "exited" /\ handles' = handles)
        /\ \A i \in HandleIds :
             /\ (~handles[i].alive /\ handles'[i].alive)
                   => /\ last'.op \in AttachOps
                      /\ last'.h = i
                      /\ \E k \in 1..Len(procs) : procs[k].pid = last'.pid
             /\ (~handles[i].alive /\ watcher[i].pc = "loop" /\ watcher'[i].pc # "loop")
                   => (watcher'[i].pc \in {"done", "timeout"} /\ handles' = handles) ]_vars

\* A poll() reported "exited" for a handle that was never terminated (an
\* earlier poll had found its process dead) while a process is running
\* again under the handle's PID.
C24_Witness ==
    /\ last.op = "poll" /\ last.ret = "exited"
    /\ last.h \notin terminated
    /\ handles[last.h].pid # NoPid
    /\ \E k \in 1..Len(procs) : procs[k].pid = handles[last.h].pid

----------------------------------------------------------------------------
(* Claims about ProcessManager and the watcher it starts *)


\* C1, as stated: once terminate() has completed on a tracked handle, no
\* later step (an attach by the still-running watcher included) changes the
\* handle's PID or liveness, and poll() keeps reporting "exited".
C1_TerminatedNeverResurrected ==
    [][ \A i \in terminated :
          handles[i].kind = "steam"
            => /\ handles'[i].pid = handles[i].pid
               /\ handles'[i].alive = handles[i].alive
               /\ pollResult(handles'[i], procs') = "exited" ]_vars

\* the required field of the game's mode is empty or only white space
RequiredMissing(g) ==
    LET f == IF Games[g].is_steam THEN Games[g].steam_app_id ELSE Games[g].exe_path
    IN  \A k \in 1..Len(f) : IsSpace(f[k])

\* an Exe-mode game whose executable path is given but is not on disk
ExeNotFound(g) ==
    /\ ~Games[g].is_steam
    /\ ~RequiredMissing(g)
    /\ Strip(Games[g].exe_path) \notin {PathGame, PathA, PathB, PathBad}

\* C4, as stated: launch() of an Exe-mode game whose executable does not
\* exist raises FileNotFoundError, starts no process and leaves the manager
\* without a current handle, whatever the manager held before.
C4_NotFoundLeavesCurrentUnset ==
    [][ (last'.op = "launch" /\ ExeNotFound(last'.g))
          => /\ last'.ret = "FileNotFoundError"
             /\ procs' = procs
             /\ _current_proc' = NoHandle ]_vars

\* C4, amended: launch() of an Exe-mode game whose executable does not exist
\* raises FileNotFoundError, starts no process and leaves the current handle
\* and the auxiliary list as they were: unset on a fresh manager, the
\* earlier game's after an earlier launch.
C4_NotFoundLeavesManagerAsItWas ==
    [][ (last'.op = "launch" /\ ExeNotFound(last'.g))
          => /\ last'.ret = "FileNotFoundError"
             /\ procs' = procs
             /\ handles' = handles
             /\ watcher' = watcher
             /\ _current_proc' = _current_proc
             /\ _extra_procs' = _extra_procs ]_vars

\* A launch failed with FileNotFoundError while an earlier game was current.
C4_Witness ==
    /\ last.op = "launch" /\ last.ret = "FileNotFoundError"
    /\ _current_proc # NoHandle

\* the auxiliary handles that are running: poll() of each would return None
RunningExtras == { k \in 1..Len(_extra_procs) : popen_poll(_extra_procs[k], procs).alive }

C6_IsRunningFollowsPoll ==
    [][ last'.op = "is_running"
          => IF _current_proc = NoHandle THEN last'.ret = "false"
             ELSE LET h == handles[_current_proc] IN
                  /\ last'.h = _current_proc
                  /\ h.kind = "popen"
                        => (last'.ret = "true" <=> _pid_alive(procs, h.pid))
                  /\ h.kind = "steam"
                        => (last'.ret = "true" <=> pollResult(h, procs) = "running")
                  /\ last'.ret = "false" => ~handles'[_current_proc].alive ]_vars

\* is_running() returned False for an Exe-mode game that exited on its own.
C6_Witness ==
    /\ last.op = "is_running" /\ last.ret = "false"
    /\ _current_proc # NoHandle
    /\ handles[_current_proc].kind = "popen"
    /\ terminated = {}

\* C7: launch() of a game whose required field is missing raises ValueError
\* and starts nothing: no game, client or auxiliary process, no handle, no
\* watcher, and no launch is left under way.
C7_MissingFieldRaisesBeforeSpawn ==
    [][ /\ (last'.op = "launch" /\ RequiredMissing(last'.g))
            => /\ last'.ret = "ValueError"
               /\ procs' = procs
               /\ handles' = handles
               /\ watcher' = watcher
               /\ _extra_procs' = _extra_procs
               /\ mpc' = "idle"
        /\ mpc' # "idle" => ~RequiredMissing(lv'.g) ]_vars

\* A launch raised ValueError for a Client-mode game without application id.
C7_Witness ==
    /\ last.op = "launch" /\ last.ret = "ValueError"
    /\ Games[last.g].is_steam

\* an auxiliary path that names a file on disk which can be started
Startable(a) == Strip(a) \in {PathGame, PathA, PathB}

\* C8: a launch() whose primary launcher succeeded returns the new handle,
\* which is the manager's current handle, and the auxiliary list holds, in
\* the order of the configuration, one newly started process per auxiliary
\* path that could be started; the other paths are skipped.
C8_ExtrasAreBestEffort ==
    [][ last'.op = "launch"
          => /\ (~Games[last'.g].is_steam /\ Startable(Games[last'.g].exe_path))
                  => last'.ret = "ok"
             /\ last'.ret = "ok"
                  => LET good == SelectSeq(Games[last'.g].extra_apps, Startable) IN
                     /\ last'.h = Len(handles')
                     /\ last'.h \notin HandleIds
                     /\ _current_proc' = last'.h
                     /\ Len(_extra_procs') = Len(good)
                     /\ \A k \in 1..Len(good) :
                          /\ ~_pid_alive(procs, _extra_procs'[k].pid)
                          /\ \E j \in 1..Len(procs') :
                               /\ procs'[j].pid = _extra_procs'[k].pid
                               /\ procs'[j].name = Strip(good[k]) ]_vars

\* A launch succeeded for a game with auxiliary paths that are blank, missing
\* or fail to start, and started its two good ones.
C8_Witness ==
    /\ last.op = "launch" /\ last.ret = "ok"
    /\ Len(Games[last.g].extra_apps) > 2
    /\ Len(_extra_procs) = 2
    /\ _current_proc = last.h

\* the PIDs of the auxiliary handles
ExtraPids(extras) == { extras[k].pid : k \in 1..Len(extras) }

\* C9: a launch() that succeeds while an earlier game is still current makes
\* the new handle the only current one and replaces the auxiliary list by
\* the new launch's auxiliaries; no terminate or kill is issued: the earlier
\* handle, the processes and the set of terminated handles stay as they were.
C9_SecondLaunchOverwrites ==
    [][ (last'.op = "launch" /\ last'.ret = "ok" /\ _current_proc # NoHandle)
          => /\ _current_proc' = last'.h
             /\ _current_proc' # _current_proc
             /\ ExtraPids(_extra_procs') \cap ExtraPids(_extra_procs) = {}
             /\ \A k \in 1..Len(_extra_procs') :
                   ~_pid_alive(procs, _extra_procs'[k].pid)
             /\ terminated' = terminated
             /\ last'.kills = 0
             /\ \A i \in HandleIds : handles'[i] = handles[i]
             /\ \A j \in 1..Len(procs) : procs'[j] = procs[j] ]_vars

\* A second launch succeeded while the first game and one of its auxiliaries
\* were still running and nothing had been terminated.
C9_Witness ==
    /\ last.op = "launch" /\ last.ret = "ok" /\ last.h = 2
    /\ terminated = {}
    /\ _pid_alive(procs, handles[1].pid)
    /\ _extra_procs # <<>>
    /\ \E p \in AlivePids : p > ClientPid /\ p < handles[2].pid /\ p # handles[1].pid

\* the states of a watcher thread that has been started
WatcherLive == {"start", "loop", "detect", "attach", "sleep"}

\* C17: every handle has at most one watcher thread: threads are started
\* only for the handle a launch has just constructed, never later and never
\* again.  A Client launch starts one exactly when the new handle has no PID
\* right after construction, that is unless detection returned a PID that is
\* still alive; an Exe launch starts none.
C17_OneWatcherIffUnresolved ==
    [][ /\ Len(watcher') = Len(handles')
        /\ \A i \in HandleIds :
             /\ watcher'[i].pc = "start" => watcher[i].pc = "start"
             /\ watcher[i].pc \notin WatcherLive => watcher'[i].pc = watcher[i].pc
        /\ Len(handles') # Len(handles)
             => LET h == Len(handles') IN
                /\ h = Len(handles) + 1
                /\ watcher'[h].pc \in {"start", "off"}
                /\ handles'[h].kind = "popen" => watcher'[h].pc = "off"
                /\ handles'[h].kind = "steam"
                     => /\ watcher'[h].pc = "start" <=> handles'[h].pid = NoPid
                        /\ handles'[h].pid = NoPid
                             <=> ~(lv.pid # 0 /\ \E k \in 1..Len(procs) : procs[k].pid = lv.pid) ]_vars

\* A Client launch returned a handle without PID and started its watcher:
\* detection had returned a process (the handle carries its image name),
\* which was gone when the handle was constructed.
C17_Witness ==
    /\ last.op = "launch" /\ last.ret = "ok"
    /\ handles[last.h].kind = "steam"
    /\ handles[last.h].pid = NoPid
    /\ handles[last.h].img # EmptyStr
    /\ watcher[last.h].pc = "start"
    /\ watcher[last.h].img_hint = EmptyStr

\* the states of a watcher thread that has returned
WatcherEnded == {"done", "timeout"}

\* C18, as stated: a watcher that has stopped never runs again, and at the
\* moment it stops the handle has a PID, or the handle reports "exited", or
\* the overall timeout has elapsed: while the handle is unresolved and alive
\* and the timeout has not elapsed, the watcher goes on retrying.
C18_StopsOnlyResolvedDeadOrTimedOut ==
    [][ \A i \in HandleIds :
          /\ watcher[i].pc \in WatcherEnded => watcher'[i].pc = watcher[i].pc
          /\ (watcher[i].pc \notin WatcherEnded /\ watcher'[i].pc \in WatcherEnded)
                => \/ handles'[i].pid # NoPid
                   \/ ~handles'[i].alive
                   \/ now' >= watcher[i].end ]_vars

\* C19, as stated: once its watcher has timed out, a handle's PID stays
\* absent, and the handle can still be terminated: the terminate() of a later
\* kill_current() issues a kill by image name for the handle's hint, whatever
\* the configuration of the Client launch was.
C19_TimedOutStillTerminable ==
    [][ \A i \in HandleIds :
          watcher[i].pc = "timeout"
            => /\ handles'[i].pid = NoPid
               /\ (last'.op = "kill_current" /\ last'.h = i)
                    => /\ handles[i].img # EmptyStr
                       /\ last'.kills >= 1 ]_vars

\* the step is a Client launch that got to starting the client
ClientTried == last'.op \in {"client", "launch"} /\ last'.client # NoClient

\* nothing of the manager, the handles, the watchers or the processes changes
NothingStarted ==
    /\ procs' = procs
    /\ handles' = handles
    /\ watcher' = watcher
    /\ _current_proc' = _current_proc
    /\ _extra_procs' = _extra_procs
    /\ mpc' = "idle" /\ mpc = "idle"

\* C21, as stated: the first install path that exists is the one used; the
\* steam:// fallback is invoked only if no install path exists; the launch
\* fails exactly when both surfaces failed, and then no detection runs and no
\* handle or watcher is created.
C21_FirstExistingPathWins ==
    [][ ClientTried
          => LET c == last'.client IN
             /\ (c.exists[1] \/ c.exists[2]) => last'.ret \in {"exe1", "exe2"}
             /\ last'.ret = "exe1" <=> c.exists[1]
             /\ last'.ret = "exe2" <=> (~c.exists[1] /\ c.exists[2])
             /\ last'.ret = "protocol" => (~c.exists[1] /\ ~c.exists[2])
             /\ last'.op = "launch" => (last'.ret = "RuntimeError" /\ NothingStarted) ]_vars

\* C21, amended: the install paths are tried in order and the first one that
\* exists and starts wins, a path that exists but fails to start being
\* skipped; the steam:// fallback is invoked exactly when no install path was
\* started; the launch raises RuntimeError exactly when no path was started
\* and the fallback failed too, and then nothing is started or created and no
\* detection runs; otherwise the launch goes on to detection.
C21_FirstStartedPathWins ==
    [][ /\ ClientTried
            => LET c == last'.client
                   ok1 == c.exists[1] /\ c.spawns[1]
                   ok2 == c.exists[2] /\ c.spawns[2]
               IN  /\ last'.ret = "exe1" <=> ok1
                   /\ last'.ret = "exe2" <=> (~ok1 /\ ok2)
                   /\ last'.ret = "protocol" <=> (~ok1 /\ ~ok2 /\ c.startfile)
                   /\ last'.ret = "RuntimeError" <=> (~ok1 /\ ~ok2 /\ ~c.startfile)
                   /\ last'.op = "launch" <=> last'.ret = "RuntimeError"
                   /\ last'.op = "launch" => NothingStarted
                   /\ last'.op = "client"
                        => /\ mpc' = "detect"
                           /\ handles' = handles /\ watcher' = watcher
        /\ (mpc = "idle" /\ mpc' # "idle") => last'.op = "client" ]_vars

\* The first install path exists but did not start, the second one did, and
\* the launch went on to detection.
C21_Witness ==
    /\ last.op = "client" /\ last.ret = "exe2"
    /\ last.client.exists[1] /\ ~last.client.spawns[1]
    /\ mpc = "detect"

LaunchErrors == {"ValueError", "FileNotFoundError", "RuntimeError"}

\* C23: a launch() that raises (missing field, missing executable, spawn or
\* client failure) leaves the current handle, the auxiliary list, the
\* handles, the watchers and the processes exactly as they were, and the
\* is_running() or kill_current() that follows acts on the handle that was
\* current before the failed call.
C23_FailedLaunchChangesNothing ==
    [][ /\ last'.op = "launch"
            => /\ last'.ret \in LaunchErrors \cup {"ok"}
               /\ last'.ret \in LaunchErrors
                    => /\ _current_proc' = _current_proc
                       /\ _extra_procs' = _extra_procs
                       /\ handles' = handles
                       /\ watcher' = watcher
                       /\ terminated' = terminated
                       /\ procs' = procs
                       /\ mpc' = "idle"
        /\ (/\ last.op = "launch" /\ last.ret \in LaunchErrors
            /\ last'.op \in {"is_running", "kill_current"})
            => /\ last'.h = _current_proc
               /\ (last'.op = "is_running" /\ _current_proc # NoHandle)
                    => (last'.ret = "true"
                          <=> GameProcess_pollResult(handles[_current_proc], procs) = "running")
               /\ (last'.op = "kill_current" /\ _current_proc # NoHandle)
                    => _current_proc \in terminated' ]_vars

\* A Client launch failed with the client unreachable while an earlier game
\* was current, running, and had an auxiliary process: all are still there.
C23_Witness ==
    /\ last.op = "launch" /\ last.ret = "RuntimeError" /\ last.client # NoClient
    /\ _current_proc # NoHandle
    /\ _pid_alive(procs, handles[_current_proc].pid)
    /\ _extra_procs # <<>>
    /\ terminated = {}

----------------------------------------------------------------------------
(* Claims about _detect_proc_psutil *)

\* the call returns in this step
DetectReturns == det.pc = "run" /\ det'.pc = "done"

\* a table of one or more processes, all with denylisted names and all
\* created at or after t0
OnlyDenylisted(tbl, t0) ==
    /\ tbl # <<>>
    /\ \A k \in 1..Len(tbl) :
          /\ Lower(tbl[k].name) \in _STEAM_SUPPORT_PROCS
          /\ tbl[k].create_time >= t0

\* C10, as stated: detection never returns a process with a denylisted
\* name, and over a table of denylisted processes created after t0 it
\* returns "none" before the timeout has elapsed.
C10_DenylistedGiveNoneBeforeTimeout ==
    [][ DetectReturns
          => /\ det'.pid # 0 => det'.name \notin _STEAM_SUPPORT_PROCS
             /\ OnlyDenylisted(procs, det.t0)
                  => /\ det'.pid = 0
                     /\ det.timeout_s > 0 => now < det.end ]_vars

\* C10, amended: detection never returns a process with a denylisted name
\* (what it returns is a process of the table, under its lower-cased name),
\* and over a table of denylisted processes created after t0 it returns
\* "none"; with psutil it does so only once the timeout has elapsed.
C10_DenylistedGiveNoneAtTimeout ==
    [][ DetectReturns
          => /\ det'.pid # 0
                  => /\ det'.name \notin _STEAM_SUPPORT_PROCS
                     /\ \E k \in 1..Len(procs) :
                          /\ procs[k].pid = det'.pid
                          /\ Lower(procs[k].name) = det'.name
             /\ OnlyDenylisted(procs, det.t0)
                  => /\ det'.pid = 0
                     /\ det'.name = EmptyStr
                     /\ PS_OK => now >= det.end ]_vars

\* Detection with psutil and a timeout above zero returned "none" over a
\* table of denylisted processes, one of them under a mixed-case name.
C10_Witness ==
    /\ det.pc = "done" /\ det.pid = 0
    /\ PS_OK /\ det.timeout_s > 0
    /\ OnlyDenylisted(procs, det.t0)
    /\ \E k \in 1..Len(procs) : procs[k].name = VrServerImg
    /\ now >= det.end

\* a process whose image name passes the name tests of detection
NameQualifies(p) ==
    LET n == Lower(p.name) IN
    /\ Len(n) >= 4
    /\ <<n[Len(n) - 3], n[Len(n) - 2], n[Len(n) - 1], n[Len(n)]>> = <<".", "e", "x", "e">>
    /\ n \notin _STEAM_SUPPORT_PROCS

\* created no more than 0.5 s before t0
InWindow(p, t0) == t0 - p.create_time <= 5

\* the processes of the table detection may return
Eligible(tbl, t0) ==
    { k \in 1..Len(tbl) : NameQualifies(tbl[k]) /\ InWindow(tbl[k], t0) }

\* the loop goes to sleep for another turn in this step
DetectSleeps == det.pc = "run" /\ det'.pc = "run" /\ now' # now

\* C11: a process is eligible iff it was created no more than 0.5 s before
\* t0: what detection returns was created at t0 - 0.5 s or later, never at
\* t0 - 0.6 s; before the timeout it returns a process as soon as one with a
\* qualifying name lies inside the window (t0 - 0.4 s included), and sleeps
\* only when there is none.
C11_GraceWindow ==
    [][ /\ DetectReturns
            => /\ det'.pid # 0
                    => \E k \in Eligible(procs, det.t0) :
                          /\ procs[k].pid = det'.pid
                          /\ procs[k].create_time # det.t0 - 6
               /\ (PS_OK /\ now < det.end /\ Eligible(procs, det.t0) # {})
                    => det'.pid # 0
               /\ (PS_OK /\ now < det.end /\
                   \E k \in 1..Len(procs) :
                      NameQualifies(procs[k]) /\ procs[k].create_time = det.t0 - 4)
                    => det'.pid # 0
        /\ DetectSleeps => Eligible(procs, det.t0) = {} ]_vars

\* Detection returned a process created 0.4 s before t0 although a process
\* created 0.6 s before t0 had a qualifying name and more resident memory.
C11_Witness ==
    /\ det.pc = "done" /\ det.pid # 0
    /\ \E k \in 1..Len(procs) :
          procs[k].pid = det.pid /\ procs[k].create_time = det.t0 - 4
    /\ \E k \in 1..Len(procs) :
          /\ NameQualifies(procs[k])
          /\ procs[k].create_time = det.t0 - 6
          /\ procs[k].rss > 0

\* the eligible processes no other eligible process exceeds in resident memory
TopRss(tbl, t0) ==
    { k \in Eligible(tbl, t0) :
        \A j \in Eligible(tbl, t0) : tbl[j].rss <= tbl[k].rss }

\* C12: the poll cycle that returns a process returns the eligible process of
\* greatest resident memory and, among several of that memory, the one
\* enumerated last, under its lower-cased image name; this includes the case
\* where every eligible process has resident memory 0.
C12_GreatestRssLastWins ==
    [][ (DetectReturns /\ det'.pid # 0)
          => /\ TopRss(procs, det.t0) # {}
             /\ LET win == CHOOSE k \in TopRss(procs, det.t0) :
                              \A j \in TopRss(procs, det.t0) : j <= k
                IN  /\ det'.pid = procs[win].pid
                    /\ det'.name = Lower(procs[win].name) ]_vars

\* Detection returned one of three eligible processes: two of them tie with
\* the greatest resident memory, and the later of the two was returned.
C12_Witness ==
    /\ det.pc = "done" /\ det.pid # 0
    /\ Cardinality(Eligible(procs, det.t0)) = 3
    /\ Cardinality(TopRss(procs, det.t0)) = 2
    /\ \E w \in TopRss(procs, det.t0) :
          /\ procs[w].pid = det.pid
          /\ \A k \in TopRss(procs, det.t0) : k <= w

\* the processes whose name is not in the exclusion set and that were
\* created no more than 0.5 s before t0, with no other test on the name
NotExcludedInWindow(tbl, t0) ==
    { k \in 1..Len(tbl) :
        Lower(tbl[k].name) \notin _STEAM_SUPPORT_PROCS /\ InWindow(tbl[k], t0) }

\* C22, as stated: the eligible set is the processes not in the exclusion set
\* and inside the window, with no other filter on the image name; detection
\* returns one of them in the first poll cycle in which there is one, and
\* returns "none" only after the timeout.  Stated for the build with psutil.
C22_EligibleWithoutNameFilter ==
    [][ /\ (PS_OK /\ DetectReturns)
            => /\ det'.pid # 0
                    => \E k \in NotExcludedInWindow(procs, det.t0) :
                          procs[k].pid = det'.pid
               /\ NotExcludedInWindow(procs, det.t0) # {} => det'.pid # 0
               /\ det'.pid = 0 => now >= det.end
        /\ DetectSleeps => NotExcludedInWindow(procs, det.t0) = {} ]_vars

\* C22, amended: with psutil present, the eligible set of a poll cycle is the
\* processes whose lower-cased image name ends in ".exe" and is not in the
\* exclusion set and that were created no more than 0.5 s before t0;
\* detection returns one of them in the first cycle before the timeout in
\* which the set is not empty, sleeps while it is empty, and returns "none"
\* only once the timeout has elapsed.  Without psutil it returns "none" at
\* once.
C22_EligibleExeNames ==
    [][ /\ DetectReturns
            => /\ det'.pid # 0
                    => /\ PS_OK /\ now < det.end
                       /\ \E k \in Eligible(procs, det.t0) :
                             /\ procs[k].pid = det'.pid
                             /\ Lower(procs[k].name) = det'.name
               /\ (PS_OK /\ now < det.end /\ Eligible(procs, det.t0) # {})
                    => det'.pid # 0
               /\ det'.pid = 0 => (~PS_OK \/ now >= det.end)
               /\ ~PS_OK => (det'.pid = 0 /\ now = det.t0)
        /\ DetectSleeps
            => (PS_OK /\ now < det.end /\ Eligible(procs, det.t0) = {}) ]_vars

\* Detection slept through a cycle although a process named "tool", not
\* excluded and created at t0, was running, and returned a ".exe" process
\* that started later.
C22_Witness ==
    /\ det.pc = "done" /\ det.pid # 0
    /\ now > det.t0
    /\ \E k \in NotExcludedInWindow(procs, det.t0) :
          /\ procs[k].name = ToolImg
          /\ procs[k].create_time = det.t0
          /\ procs[k].pid # det.pid

----------------------------------------------------------------------------
(* Claims about _detect_proc_tasklist *)

\* the call returns in this step; what it returns is lv'.kill_img
TasklistReturns == mpc = "tasklist" /\ mpc' = "construct"

\* the call sleeps for another cycle in this step
TasklistSleeps == mpc = "tasklist" /\ mpc' = "tasklist" /\ now' # now

\* (after - before), restricted to names in ".exe", minus the exclusion set
Candidates(tbl, before) ==
    { n \in { Lower(tbl[k].name) : k \in 1..Len(tbl) } \ before :
        EndsWith(n, DotExe) /\ n \notin _STEAM_SUPPORT_PROCS }

InstallerWords ==
    { <<"l","a","u","n","c","h","e","r">>, <<"s","e","t","u","p">>,
      <<"u","p","d","a","t","e","r">>, <<"i","n","s","t","a","l","l">> }

\* the candidates that name no installer, updater or launcher
Survivors(c) == { n \in c : \A w \in InstallerWords : ~Contains(n, w) }

\* a cycle over these candidates resolves to one name
Resolves(c) ==
    \/ Cardinality(c) = 1
    \/ Cardinality(c) > 1 /\ Cardinality(Survivors(c)) = 1

\* C13: a cycle before the timeout returns the candidate when there is
\* exactly one, the survivor of the secondary filter when there are several
\* candidates and exactly one survivor, and sleeps in every other case; "none"
\* is returned only once the timeout has elapsed.  Before {a.exe, b.exe} and
\* after {a.exe, b.exe, c.exe, updater.exe} give c.exe.
C13_SnapshotDiff ==
    [][ LET c == Candidates(procs, lv.baseline)
            inTime == now - lv.tl_t0 < lv.timeout_s
        IN  /\ TasklistReturns
                => /\ (inTime /\ Cardinality(c) = 1) => lv'.kill_img \in c
                   /\ (inTime /\ Cardinality(c) > 1)
                        => Survivors(c) = {lv'.kill_img}
                   /\ lv'.kill_img = EmptyStr <=> ~inTime
                   /\ (/\ inTime
                       /\ lv.baseline = {PathA, PathB}
                       /\ _tasklist_images(procs) =
                             {PathA, PathB, OtherImg, Lower(UpdaterImg)})
                        => lv'.kill_img = OtherImg
            /\ TasklistSleeps => (inTime /\ ~Resolves(c)) ]_vars

\* The call returned c.exe from before {a.exe, b.exe} and after {a.exe,
\* b.exe, c.exe, updater.exe}, in a later cycle than its first.
C13_Witness ==
    /\ mpc = "construct" /\ lv.kill_img = OtherImg
    /\ lv.baseline = {PathA, PathB}
    /\ { procs[k].name : k \in 1..Len(procs) } = {PathA, PathB, OtherImg, UpdaterImg}
    /\ now > lv.tl_t0

====
